---- MODULE Spec2Model ----
(***************************************************************************)
(* DriveReader: main() lists the files of a Drive account and calls        *)
(* extractText on every file of a supported MIME type; extractText fetches *)
(* the metadata, switches on the MIME type to one extractor, and the       *)
(* extractor fetches the content, decodes it and calls saveFile.           *)
(*                                                                         *)
(* Text is a sequence of one-character strings, a byte buffer a sequence   *)
(* of character codes.  Every await of the code is a position (pc) of the  *)
(* per-file task; the code between two awaits is one action.               *)
(***************************************************************************)
EXTENDS Integers, Sequences, FiniteSets, TLC

\* ------------------------------------------------------------------ bounds
NumFiles == 2       \* files in the remote account
MaxCalls == 2       \* calls of the exported extractText per file (SpecApi)
ApiFiles == 1       \* files the callers of the exported extractText use
MaxBody  == 4       \* length of a CSV export body (SpecCsv)
MaxBytes == 2       \* length of a response body (SpecBuf)

Files == 1..NumFiles

\* ------------------------------------------------------------ MIME types
PDF    == "application/pdf"
GDOC   == "application/vnd.google-apps.document"
GSHEET == "application/vnd.google-apps.spreadsheet"
GSLIDE == "application/vnd.google-apps.presentation"
DOCX   == "application/vnd.openxmlformats-officedocument.wordprocessingml.document"
PLAIN  == "text/plain"
UNSUPPORTED == "image/png"       \* a type outside the supported set

\* new Set([...]) of main
fileTypes == {PDF, GDOC, GSHEET, GSLIDE, DOCX, PLAIN}

MimeTypes == fileTypes \cup {UNSUPPORTED}

\* ------------------------------------------------------- text and bytes
NL == "\n"
CsvAlphabet == {"a", ",", " ", NL}

RECURSIVE SeqsUpTo(_, _)
SeqsUpTo(S, n) ==
    IF n = 0 THEN {<<>>}
    ELSE LET shorter == SeqsUpTo(S, n - 1)
         IN  shorter \cup {Append(s, c) : s \in {t \in shorter : Len(t) = n - 1}, c \in S}

\* String.prototype.trim() is falsy exactly on a line of white space only
IsWhite(c) == c \in {" ", NL, "\t", "\r"}
TrimIsEmpty(line) == \A i \in 1..Len(line) : IsWhite(line[i])

\* csvText.split('\n')
RECURSIVE SplitNL(_)
SplitNL(s) ==
    IF \A i \in 1..Len(s) : s[i] # NL THEN <<s>>
    ELSE LET k == CHOOSE i \in 1..Len(s) : s[i] = NL /\ \A j \in 1..(i - 1) : s[j] # NL
         IN  <<SubSeq(s, 1, k - 1)>> \o SplitNL(SubSeq(s, k + 1, Len(s)))

\* lines.filter(line => line.trim())
RECURSIVE FilterNonBlank(_)
FilterNonBlank(lines) ==
    IF lines = <<>> THEN <<>>
    ELSE (IF TrimIsEmpty(Head(lines)) THEN <<>> ELSE <<Head(lines)>>)
         \o FilterNonBlank(Tail(lines))

\* a mutant of ReplaceCommas: replace(',', ' | ') without the g flag
RECURSIVE ReplaceFirstComma(_)
ReplaceFirstComma(line) ==
    IF line = <<>> THEN <<>>
    ELSE IF Head(line) = "," THEN <<" ", "|", " ">> \o Tail(line)
    ELSE <<Head(line)>> \o ReplaceFirstComma(Tail(line))

\* line.replace(/,/g, ' | ')
RECURSIVE ReplaceCommas(_)
ReplaceCommas(line) ==
    IF line = <<>> THEN <<>>
    ELSE (IF Head(line) = "," THEN <<" ", "|", " ">> ELSE <<Head(line)>>)
         \o ReplaceCommas(Tail(line))

\* .join('\n')
RECURSIVE JoinNL(_)
JoinNL(lines) ==
    IF lines = <<>> THEN <<>>
    ELSE IF Len(lines) = 1 THEN lines[1]
    ELSE lines[1] \o <<NL>> \o JoinNL(Tail(lines))

\* extractSpreadsheetText: split, filter, map, join
FormatCsv(csvText) ==
    LET lines == SplitNL(csvText)
        kept  == FilterNonBlank(lines)
    IN  JoinNL([i \in 1..Len(kept) |-> ReplaceCommas(kept[i])])

\* ------------------------------------------------------------ remote files
Letters == <<"a", "b", "c", "d", "e">>

\* file.name of the files of the account: "r.d", "r", "n.t", "n", ...
Names == << <<"r", ".", "d">>, <<"r">>, <<"n", ".", "t">>, <<"n">> >>
FileName(f) == Names[((f - 1) % Len(Names)) + 1]

\* the stored content of file f, as text
Body(f) == <<Letters[f], ",", Letters[f], NL>>

CharCode(c) ==
    CASE c = "a" -> 97 [] c = "b" -> 98 [] c = "c" -> 99 [] c = "d" -> 100
      [] c = "e" -> 101 [] c = "," -> 44 [] c = " " -> 32 [] c = "|" -> 124
      [] c = NL -> 10
Chars == {"a", "b", "c", "d", "e", ",", " ", "|", NL}
CodeChar(n) == CHOOSE c \in Chars : CharCode(c) = n

\* the bytes of a text (UTF-8 of these characters) and back
Encode(text) == [i \in 1..Len(text) |-> CharCode(text[i])]
Decode(bytes) == [i \in 1..Len(bytes) |-> CodeChar(bytes[i])]

\* ----------------------------------------------------------- normalization
\* the shapes response.data takes
Shapes == {"ArrayBuffer", "Blob", "Buffer", "String"}

\* Buffer.from(value): a string is encoded, bytes are copied, and an object
\* that is neither (a Blob) is a TypeError
BufferFrom(data) ==
    CASE data.shape = "String" -> [type |-> "Buffer", bytes |-> Encode(data.content)]
      [] data.shape \in {"ArrayBuffer", "Buffer"} -> [type |-> "Buffer", bytes |-> data.content]
      [] OTHER -> [type |-> "TypeError", bytes |-> <<>>]

\* what data.arrayBuffer() resolves to
Collected(data) == [shape |-> "ArrayBuffer", content |-> data.content]

\* a mutant of handleArrayBuffer: the arrayBuffer() probe is missing
handleArrayBufferNoCollect(data) ==
    IF data.shape = "ArrayBuffer"
    THEN [branch |-> 1, awaits |-> FALSE, result |-> BufferFrom(data)]
    ELSE [branch |-> 3, awaits |-> FALSE, result |-> BufferFrom(data)]

\* handleArrayBuffer: which branch runs, whether it awaits arrayBuffer(), and
\* the value it returns
handleArrayBuffer(data) ==
    IF data.shape = "ArrayBuffer"
    THEN [branch |-> 1, awaits |-> FALSE, result |-> BufferFrom(data)]
    ELSE IF data.shape = "Blob"
    THEN [branch |-> 2, awaits |-> TRUE, result |-> BufferFrom(Collected(data))]
    ELSE [branch |-> 3, awaits |-> FALSE, result |-> BufferFrom(data)]

\* ----------------------------------------------------------------- dispatch
\* a mutant of ExtractorFor: two cases of the switch exchanged
ExtractorForSwapped(mimeType) ==
    CASE mimeType = PDF    -> "extractPDFText"
      [] mimeType = GDOC   -> "extractPresentationText"
      [] mimeType = GSHEET -> "extractSpreadsheetText"
      [] mimeType = GSLIDE -> "extractDocumentText"
      [] mimeType = DOCX   -> "extractWordDoc"
      [] mimeType = PLAIN  -> "extractPlainText"
      [] OTHER -> "throw"

\* the switch of extractText
ExtractorFor(mimeType) ==
    CASE mimeType = PDF    -> "extractPDFText"
      [] mimeType = GDOC   -> "extractDocumentText"
      [] mimeType = GSHEET -> "extractSpreadsheetText"
      [] mimeType = GSLIDE -> "extractPresentationText"
      [] mimeType = DOCX   -> "extractWordDoc"
      [] mimeType = PLAIN  -> "extractPlainText"
      [] OTHER -> "throw"

NoCall == [op |-> "none", alt |-> "none", mimeType |-> "none", responseType |-> "none"]

\* the content request each extractor issues
FetchCall(extractor) ==
    CASE extractor = "extractPDFText" ->
           [op |-> "get", alt |-> "media", mimeType |-> "none", responseType |-> "arraybuffer"]
      [] extractor = "extractDocumentText" ->
           [op |-> "export", alt |-> "none", mimeType |-> "text/plain", responseType |-> "none"]
      [] extractor = "extractSpreadsheetText" ->
           [op |-> "export", alt |-> "none", mimeType |-> "text/csv", responseType |-> "none"]
      [] extractor = "extractPresentationText" ->
           [op |-> "export", alt |-> "none", mimeType |-> "text/plain", responseType |-> "none"]
      [] extractor = "extractWordDoc" ->
           [op |-> "export", alt |-> "media", mimeType |-> "none", responseType |-> "arraybuffer"]
      [] extractor = "extractPlainText" ->
           [op |-> "get", alt |-> "media", mimeType |-> "none", responseType |-> "text"]

\* the output directory each extractor passes to saveFile
OutputDir(extractor) ==
    CASE extractor = "extractPDFText"          -> "./saved-outputs/pdf"
      [] extractor = "extractDocumentText"     -> "./saved-outputs/document"
      [] extractor = "extractSpreadsheetText"  -> "./saved-outputs/spreadsheet"
      [] extractor = "extractPresentationText" -> "./saved-outputs/presentation"
      [] extractor = "extractWordDoc"          -> "./saved-outputs/word-doc"
      [] extractor = "extractPlainText"        -> "./saved-outputs/plain-text"

OutputDirs == {OutputDir(ExtractorFor(m)) : m \in fileTypes}

\* the extractors that pass the response through handleArrayBuffer and a parser
Binary(extractor) == extractor \in {"extractPDFText", "extractWordDoc"}

\* a mutant of SavesOnContent: the PDF extractor saves before it parses
SavesOnContentEarly(extractor) == extractor # "extractWordDoc"

\* the extractors that call saveFile in the continuation of the content fetch
SavesOnContent(extractor) == ~Binary(extractor)

\* the text an extractor hands to saveFile and returns, from the response
\* body (text extractors) or from the normalized buffer (pdfParse, mammoth)
ExtractedText(extractor, f, buffer) ==
    CASE extractor = "extractSpreadsheetText" -> FormatCsv(Body(f))
      [] Binary(extractor) -> Decode(buffer.bytes)
      [] OTHER -> Body(f)

\* ------------------------------------------------------------------ saveFile
RECURSIVE LastIndexOf(_, _)
LastIndexOf(s, c) ==
    IF s = <<>> THEN 0
    ELSE IF s[Len(s)] = c THEN Len(s)
    ELSE LastIndexOf(SubSeq(s, 1, Len(s) - 1), c)

\* path.parse(originalFileName).name: the last path segment without its last
\* extension (a leading dot starts no extension)
BaseName(name) ==
    LET base == SubSeq(name, LastIndexOf(name, "/") + 1, Len(name))
        dot  == LastIndexOf(base, ".")
    IN  IF dot > 1 THEN SubSeq(base, 1, dot - 1) ELSE base

\* path.join(outputDir, `${baseName}-converted.txt`)
OutputPath(outputDir, originalFileName) ==
    [dir |-> outputDir, file |-> BaseName(originalFileName) \o <<"-converted.txt">>]

\* a mutant of WriteFileSync: the text is appended to the existing file
AppendFileSync(fsv, path, text) ==
    [p \in DOMAIN fsv \cup {path} |->
        IF p = path THEN (IF p \in DOMAIN fsv THEN fsv[p] ELSE <<>>) \o text ELSE fsv[p]]

\* fs.writeFileSync(outputPath, text): create or replace the whole file
WriteFileSync(fsv, path, text) ==
    [p \in DOMAIN fsv \cup {path} |-> IF p = path THEN text ELSE fsv[p]]

IoOutcomes == {"ok", "mkdirError", "writeError"}

\* saveFile: the filesystem and the console line it leaves; every error is
\* caught inside and logged
SaveFile(fsv, dirsv, text, originalFileName, outputDir, io) ==
    IF io = "mkdirError" /\ outputDir \notin dirsv
    THEN [fs |-> fsv, dirs |-> dirsv, log |-> "error"]
    ELSE IF io = "writeError"
    THEN [fs |-> fsv, dirs |-> dirsv \cup {outputDir}, log |-> "error"]
    ELSE [fs |-> WriteFileSync(fsv, OutputPath(outputDir, originalFileName), text),
          dirs |-> dirsv \cup {outputDir}, log |-> "saved"]

\* ------------------------------------------------------------------- state
VARIABLES
    remote,      \* the MIME type of each file of the account
    fs,          \* the local files: output path -> content
    dirs,        \* the output directories that exist
    pcMain,      \* position of main
    files,       \* res.data.files, the ids the listing returned
    pc,          \* position of extractText for each file
    promise,     \* the promise extractText returned for each file
    ran,         \* the extractors the current call of extractText has called
    fetchCall,   \* the content request the extractor issued
    resp,        \* the body of a binary content response
    errorLog,    \* what the catch of extractText logged in the current call
    saveLog,     \* what saveFile logged in the current call
    saveCalls,   \* calls of saveFile in the current call
    stages,      \* the stages the current call has completed
    calls,       \* calls of extractText made for each file
    saved,       \* "Saved to" lines logged for each file, over all calls
    csvPc, csvBody, csvOut,          \* one run of the spreadsheet flattening
    bufPc, bufIn, bufBranch, bufOut  \* one call of handleArrayBuffer

fsVars   == <<fs, dirs>>
mainVars == <<pcMain, files>>
callVars == <<ran, fetchCall, resp, errorLog, saveLog, saveCalls, stages>>
taskVars == <<pc, promise, callVars, calls, saved>>
csvVars  == <<csvPc, csvBody, csvOut>>
bufVars  == <<bufPc, bufIn, bufBranch, bufOut>>
vars     == <<remote, fsVars, mainVars, taskVars, csvVars, bufVars>>

NoData   == [shape |-> "none", content |-> <<>>]
NoBuffer == [type |-> "none", bytes |-> <<>>]

CsvOff == csvPc = "off" /\ csvBody = <<>> /\ csvOut = <<>>
BufOff == bufPc = "off" /\ bufIn = NoData /\ bufBranch = 0 /\ bufOut = NoBuffer

TasksIdle ==
    /\ pc = [f \in Files |-> "Idle"]
    /\ promise = [f \in Files |-> "none"]
    /\ ran = [f \in Files |-> <<>>]
    /\ fetchCall = [f \in Files |-> NoCall]
    /\ resp = [f \in Files |-> NoData]
    /\ errorLog = [f \in Files |-> "none"]
    /\ saveLog = [f \in Files |-> "none"]
    /\ saveCalls = [f \in Files |-> 0]
    /\ stages = [f \in Files |-> {}]
    /\ calls = [f \in Files |-> 0]
    /\ saved = [f \in Files |-> 0]

\* the account holds any files; the output directories exist or do not
Init ==
    /\ remote \in [Files -> MimeTypes]
    /\ fs = <<>>
    /\ dirs \in {{}, OutputDirs}
    /\ pcMain = "start"
    /\ files = <<>>
    /\ TasksIdle
    /\ CsvOff
    /\ BufOff

\* ----------------------------------------------------------- extractText
\* the promise of extractText after its catch block ran: resolved, with no value
CatchRethrows == "rejected"
CatchResult == "undefined"

\* the catch of extractText: log the error, return nothing
Caught(f, stage) ==
    /\ pc' = [pc EXCEPT ![f] = "Settled"]
    /\ promise' = [promise EXCEPT ![f] = CatchResult]
    /\ errorLog' = [errorLog EXCEPT ![f] = stage]
    /\ UNCHANGED <<ran, fetchCall, resp, saveLog, saveCalls, stages, calls, saved, fsVars>>

\* saveFile(text, fileName, dir) as extractor ex calls it for file f
Save(f, ex, text, io) ==
    LET r == SaveFile(fs, dirs, text, FileName(f), OutputDir(ex), io)
    IN  /\ fs' = r.fs
        /\ dirs' = r.dirs
        /\ saveLog' = [saveLog EXCEPT ![f] = r.log]
        /\ saveCalls' = [saveCalls EXCEPT ![f] = @ + 1]
        /\ saved' = [saved EXCEPT ![f] = IF r.log = "saved" THEN @ + 1 ELSE @]

\* return <text> of an extractor, returned again by extractText
Return(f) ==
    /\ pc' = [pc EXCEPT ![f] = "Settled"]
    /\ promise' = [promise EXCEPT ![f] = "text"]

\* the response to files.get(fields) arrives: switch on the MIME type, and the
\* extractor issues its content request
MetadataResp(f) ==
    /\ pc[f] = "Metadata"
    /\ \/ Caught(f, "metadata")
       \/ LET ex == ExtractorFor(remote[f])
          IN  IF ex = "throw"
              THEN Caught(f, "unsupported")
              ELSE /\ ran' = [ran EXCEPT ![f] = Append(@, ex)]
                   /\ fetchCall' = [fetchCall EXCEPT ![f] = FetchCall(ex)]
                   /\ stages' = [stages EXCEPT ![f] = @ \cup {"metadata"}]
                   /\ pc' = [pc EXCEPT ![f] = "Content"]
                   /\ UNCHANGED <<promise, resp, errorLog, saveLog, saveCalls, calls, saved, fsVars>>
    /\ UNCHANGED <<remote, mainVars, csvVars, bufVars>>

\* the content response arrives: the text extractors save and return, the
\* binary ones hand the response to handleArrayBuffer
ContentResp(f) ==
    /\ pc[f] = "Content"
    /\ LET ex == ran[f][Len(ran[f])]
       IN  \/ Caught(f, "content")
           \/ \E io \in IoOutcomes, shape \in {"ArrayBuffer", "Blob"} :
                LET data == [shape |-> shape, content |-> Encode(Body(f))]
                IN  /\ stages' = [stages EXCEPT ![f] = @ \cup {"content"}]
                    /\ IF SavesOnContent(ex)
                       THEN Save(f, ex, ExtractedText(ex, f, BufferFrom(Collected(data))), io)
                       ELSE UNCHANGED <<fsVars, saveLog, saveCalls, saved>>
                    /\ IF Binary(ex)
                       THEN /\ resp' = [resp EXCEPT ![f] = data]
                            /\ pc' = [pc EXCEPT ![f] = "Normalizing"]
                            /\ UNCHANGED promise
                       ELSE /\ Return(f)
                            /\ UNCHANGED resp
                    /\ UNCHANGED <<ran, fetchCall, errorLog, calls>>
    /\ UNCHANGED <<remote, mainVars, csvVars, bufVars>>

\* handleArrayBuffer returns (or arrayBuffer() rejects): the parser is called
NormalizeDone(f) ==
    /\ pc[f] = "Normalizing"
    /\ LET r == handleArrayBuffer(resp[f])
       IN  \/ /\ r.awaits \/ r.result.type # "Buffer"
              /\ Caught(f, "normalize")
           \/ /\ r.result.type = "Buffer"
              /\ stages' = [stages EXCEPT ![f] = @ \cup {"normalize"}]
              /\ pc' = [pc EXCEPT ![f] = "Extracting"]
              /\ UNCHANGED <<promise, ran, fetchCall, resp, errorLog, saveLog,
                             saveCalls, calls, saved, fsVars>>
    /\ UNCHANGED <<remote, mainVars, csvVars, bufVars>>

\* pdfParse / mammoth.convertToText returns or throws: save and return
DecodeDone(f) ==
    /\ pc[f] = "Extracting"
    /\ LET ex == ran[f][Len(ran[f])]
       IN  \/ Caught(f, "decode")
           \/ \E io \in IoOutcomes :
                /\ stages' = [stages EXCEPT ![f] = @ \cup {"decode"}]
                /\ Save(f, ex, ExtractedText(ex, f, handleArrayBuffer(resp[f]).result), io)
                /\ Return(f)
                /\ UNCHANGED <<ran, fetchCall, resp, errorLog, calls>>
    /\ UNCHANGED <<remote, mainVars, csvVars, bufVars>>

\* ------------------------------------------------------------------- main
\* await authorize(): a client, or main rejects
Authorize ==
    /\ pcMain = "start"
    /\ pcMain' \in {"authorized", "rejected"}
    /\ UNCHANGED <<remote, files, fsVars, taskVars, csvVars, bufVars>>

\* await drive.files.list(...): the first files of the account, or main rejects
ListFiles ==
    /\ pcMain = "authorized"
    /\ \/ \E n \in 0..NumFiles :
            /\ files' = [i \in 1..n |-> i]
            /\ pcMain' = "listed"
       \/ /\ pcMain' = "rejected"
          /\ UNCHANGED files
    /\ UNCHANGED <<remote, fsVars, taskVars, csvVars, bufVars>>

Listed == {files[i] : i \in 1..Len(files)}

\* files.forEach(...): extractText is called for every file of a supported
\* type and runs to its first await; then main returns
ProcessFiles ==
    /\ pcMain = "listed"
    /\ LET go == {f \in Listed : remote[f] \in fileTypes}
       IN  /\ pc' = [f \in Files |-> IF f \in go THEN "Metadata"
                                     ELSE IF f \in Listed THEN "Skipped" ELSE pc[f]]
           /\ promise' = [f \in Files |-> IF f \in go THEN "pending" ELSE promise[f]]
           /\ calls' = [f \in Files |-> IF f \in go THEN calls[f] + 1 ELSE calls[f]]
    /\ pcMain' = "done"
    /\ UNCHANGED <<remote, files, fsVars, callVars, saved, csvVars, bufVars>>

Next ==
    \/ Authorize
    \/ ListFiles
    \/ ProcessFiles
    \/ \E f \in Files : MetadataResp(f)
    \/ \E f \in Files : ContentResp(f)
    \/ \E f \in Files : NormalizeDone(f)
    \/ \E f \in Files : DecodeDone(f)

Spec == Init /\ [][Next]_vars

\* ------------------------------------------- the exported extractText (API)
\* module.exports = { extractText }: a caller calls it for any file id, again
\* once the previous call for that file has settled
CallExtractText(f) ==
    /\ pcMain = "start"
    /\ f <= ApiFiles
    /\ pc[f] \in {"Idle", "Settled"}
    /\ calls[f] < MaxCalls
    /\ pc' = [pc EXCEPT ![f] = "Metadata"]
    /\ promise' = [promise EXCEPT ![f] = "pending"]
    /\ calls' = [calls EXCEPT ![f] = @ + 1]
    /\ ran' = [ran EXCEPT ![f] = <<>>]
    /\ fetchCall' = [fetchCall EXCEPT ![f] = NoCall]
    /\ resp' = [resp EXCEPT ![f] = NoData]
    /\ errorLog' = [errorLog EXCEPT ![f] = "none"]
    /\ saveLog' = [saveLog EXCEPT ![f] = "none"]
    /\ saveCalls' = [saveCalls EXCEPT ![f] = 0]
    /\ stages' = [stages EXCEPT ![f] = {}]
    /\ UNCHANGED <<remote, mainVars, fsVars, saved, csvVars, bufVars>>

NextApi ==
    \/ \E f \in Files : CallExtractText(f)
    \/ \E f \in Files : MetadataResp(f)
    \/ \E f \in Files : ContentResp(f)
    \/ \E f \in Files : NormalizeDone(f)
    \/ \E f \in Files : DecodeDone(f)

\* the files no caller uses are of no account: fix their type
InitApi == Init /\ \A f \in Files : f > ApiFiles => remote[f] = UNSUPPORTED

SpecApi == InitApi /\ [][NextApi]_vars

\* ------------------------------------------- the spreadsheet flattening alone
CsvExample  == <<"a", ",", "b", ",", "c", NL, NL, "1", ",", "2", ",", "3", NL>>
CsvExpected == <<"a", " ", "|", " ", "b", " ", "|", " ", "c", NL,
                 "1", " ", "|", " ", "2", " ", "|", " ", "3">>

\* the export bodies: every text over the alphabet, and the documented example
CsvBodies == SeqsUpTo(CsvAlphabet, MaxBody) \cup {CsvExample}

InitCsv ==
    /\ remote = [f \in Files |-> GSHEET]
    /\ fs = <<>>
    /\ dirs = {}
    /\ pcMain = "start"
    /\ files = <<>>
    /\ TasksIdle
    /\ csvPc = "exported"
    /\ csvBody \in CsvBodies
    /\ csvOut = <<>>
    /\ BufOff

\* const formattedText = lines.filter(...).map(...).join('\n')
FormatStep ==
    /\ csvPc = "exported"
    /\ csvOut' = FormatCsv(csvBody)
    /\ csvPc' = "formatted"
    /\ UNCHANGED <<remote, fsVars, mainVars, taskVars, csvBody, bufVars>>

NextCsv == FormatStep

SpecCsv == InitCsv /\ [][NextCsv]_vars

\* --------------------------------------------------- handleArrayBuffer alone
ByteValues == {0, CharCode("a"), 255}

\* the bodies of each shape: bytes, or a string for the String shape
BufInputs ==
    {[shape |-> sh, content |-> c] :
        sh \in {"ArrayBuffer", "Blob", "Buffer"}, c \in SeqsUpTo(ByteValues, MaxBytes)}
    \cup {[shape |-> "String", content |-> c] : c \in SeqsUpTo({"a", ","}, MaxBytes)}

InitBuf ==
    /\ remote = [f \in Files |-> PDF]
    /\ fs = <<>>
    /\ dirs = {}
    /\ pcMain = "start"
    /\ files = <<>>
    /\ TasksIdle
    /\ CsvOff
    /\ bufPc = "called"
    /\ bufIn \in BufInputs
    /\ bufBranch = 0
    /\ bufOut = NoBuffer

\* the probes of handleArrayBuffer: branches 1 and 3 return, branch 2 awaits
\* response.data.arrayBuffer(); a throwing Buffer.from rejects
BufProbe ==
    /\ bufPc = "called"
    /\ LET r == handleArrayBuffer(bufIn)
       IN  /\ bufBranch' = r.branch
           /\ bufPc' = IF r.awaits THEN "collecting"
                       ELSE IF r.result.type = "Buffer" THEN "returned" ELSE "rejected"
           /\ bufOut' = IF r.awaits \/ r.result.type # "Buffer" THEN bufOut ELSE r.result
    /\ UNCHANGED <<remote, fsVars, mainVars, taskVars, csvVars, bufIn>>

\* arrayBuffer() resolves and the bytes are wrapped
BufCollected ==
    /\ bufPc = "collecting"
    /\ bufOut' = handleArrayBuffer(bufIn).result
    /\ bufPc' = "returned"
    /\ UNCHANGED <<remote, fsVars, mainVars, taskVars, csvVars, bufIn, bufBranch>>

\* arrayBuffer() rejects
BufCollectFailed ==
    /\ bufPc = "collecting"
    /\ bufPc' = "rejected"
    /\ UNCHANGED <<remote, fsVars, mainVars, taskVars, csvVars, bufIn, bufBranch, bufOut>>

NextBuf == BufProbe \/ BufCollected \/ BufCollectFailed

SpecBuf == InitBuf /\ [][NextBuf]_vars

\* ------------------------------------------------------------------ claims
Terminal(f) == pc[f] \in {"Skipped", "Settled"}
AllSettled == pcMain = "done" /\ \A f \in Listed : Terminal(f)

\* the path and the text of the artifact of file f
PathOf(f) == OutputPath(OutputDir(ExtractorFor(remote[f])), FileName(f))
TextOf(f) ==
    ExtractedText(ExtractorFor(remote[f]), f, [type |-> "Buffer", bytes |-> Encode(Body(f))])

\* C1: when main has finished, every extraction it dispatched has reached a
\* terminal state (settled or skipped), so no write of the batch is still to come.
C1_MainFinishesAfterExtractions ==
    pcMain = "done" => \A f \in Listed : Terminal(f)

ExtractorTable ==
    { <<PDF, "extractPDFText">>, <<GDOC, "extractDocumentText">>,
      <<GSHEET, "extractSpreadsheetText">>, <<GSLIDE, "extractPresentationText">>,
      <<DOCX, "extractWordDoc">>, <<PLAIN, "extractPlainText">> }

\* C2: a file of a supported type is dispatched, and its dispatch calls exactly
\* one extractor, the one of its type; a file of any other type is skipped, no
\* extractor runs for it and nothing is saved for it.
C2_DispatchSelectsMatchingExtractor ==
    \A f \in Files :
        /\ Len(ran[f]) <= 1
        /\ \A i \in 1..Len(ran[f]) : <<remote[f], ran[f][i]>> \in ExtractorTable
        /\ remote[f] \in fileTypes /\ f \in Listed /\ pcMain = "done"
              => calls[f] = 1 /\ pc[f] # "Skipped"
        /\ remote[f] \in fileTypes /\ "metadata" \in stages[f] => Len(ran[f]) = 1
        /\ remote[f] \notin fileTypes
              => /\ ran[f] = <<>> /\ calls[f] = 0 /\ saveCalls[f] = 0 /\ saved[f] = 0
                 /\ f \in Listed /\ pcMain = "done" => pc[f] = "Skipped"

C2_Witness ==
    \E f, g \in Files :
        /\ remote[f] = GSHEET /\ pc[f] = "Settled" /\ ran[f] = <<"extractSpreadsheetText">>
        /\ saveLog[f] = "saved"
        /\ remote[g] = UNSUPPORTED /\ pc[g] = "Skipped"

FailedOnItsOwn(f) == errorLog[f] # "none" \/ saveLog[f] = "error"

\* C3: no promise of extractText rejects, the loop visits every listed file,
\* and once every extraction has settled each supported file that met no error
\* of its own has its artifact, whatever happened to the other files.
C3_PartialFailureIsolation ==
    /\ \A f \in Files : promise[f] # "rejected"
    /\ pcMain = "done" => \A f \in Listed : pc[f] # "Idle"
    /\ AllSettled =>
          \A f \in Listed :
              remote[f] \in fileTypes /\ ~FailedOnItsOwn(f)
                  => /\ saveLog[f] = "saved"
                     /\ PathOf(f) \in DOMAIN fs
                     /\ PathOf(f).dir \in dirs

C3_Witness ==
    /\ AllSettled
    /\ \E f, g \in Listed :
          /\ errorLog[g] = "decode" /\ promise[g] = "undefined"
          /\ f # g /\ remote[f] \in fileTypes /\ ~FailedOnItsOwn(f)
          /\ PathOf(f) \in DOMAIN fs

\* C4: documents and presentations are fetched by export to text/plain,
\* spreadsheets by export to text/csv, and PDF, OpenXML word documents and plain
\* text by files.get with alt=media, never by export.
C4_FetchModeSelection ==
    \A f \in Files :
        fetchCall[f] # NoCall =>
            /\ remote[f] \in {GDOC, GSLIDE}
                  => fetchCall[f].op = "export" /\ fetchCall[f].mimeType = "text/plain"
            /\ remote[f] = GSHEET
                  => fetchCall[f].op = "export" /\ fetchCall[f].mimeType = "text/csv"
            /\ remote[f] \in {PDF, DOCX, PLAIN}
                  => fetchCall[f].op = "get" /\ fetchCall[f].alt = "media"

\* the lines of a text, cut at every newline
NewlinesOf(s) == {i \in 1..Len(s) : s[i] = NL}
LinesOf(s) ==
    LET cut(k) == IF k = 0 THEN 0
                  ELSE IF k > Cardinality(NewlinesOf(s)) THEN Len(s) + 1
                  ELSE CHOOSE i \in NewlinesOf(s) :
                          Cardinality({j \in NewlinesOf(s) : j <= i}) = k
    IN  [k \in 1..(Cardinality(NewlinesOf(s)) + 1) |-> SubSeq(s, cut(k - 1) + 1, cut(k) - 1)]
NonBlank(line) == \E i \in 1..Len(line) : ~IsWhite(line[i])

\* a line with every " | " turned back into a comma
RECURSIVE BarsToCommas(_)
BarsToCommas(o) ==
    IF o = <<>> THEN <<>>
    ELSE IF Len(o) >= 3 /\ SubSeq(o, 1, 3) = <<" ", "|", " ">>
    THEN <<",">> \o BarsToCommas(SubSeq(o, 4, Len(o)))
    ELSE <<Head(o)>> \o BarsToCommas(Tail(o))

\* C5: the flattened text holds, in order and separated by single newlines, the
\* non-blank lines of the CSV body with every comma replaced by " | "; it holds
\* no comma, no blank line and no trailing newline; the documented example holds.
C5_SpreadsheetFlattening ==
    csvPc = "formatted" =>
        LET want == SelectSeq(LinesOf(csvBody), NonBlank)
            got  == IF csvOut = <<>> THEN <<>> ELSE LinesOf(csvOut)
        IN  /\ \A i \in 1..Len(csvOut) : csvOut[i] # ","
            /\ csvOut # <<>> => csvOut[Len(csvOut)] # NL
            /\ \A i \in 1..Len(got) : NonBlank(got[i])
            /\ Len(got) = Len(want)
            /\ \A i \in 1..Len(got) : BarsToCommas(got[i]) = want[i]
            /\ csvBody = CsvExample => csvOut = CsvExpected

C5_Witness ==
    csvPc = "formatted" /\ csvBody = CsvExample /\ csvOut = CsvExpected

\* C6: a file whose processing failed at any stage, the disk write included,
\* ends Failed (its promise carries no text), never as a success.
C6_FailureEndsFailed ==
    \A f \in Files :
        pc[f] = "Settled" /\ FailedOnItsOwn(f) => promise[f] = "undefined"

\* C7: once the batch has settled there is one artifact per successfully
\* processed file, each holding that file's text, in every completion order.
C7_WriteOrderIndependence ==
    AllSettled =>
        LET done == {f \in Listed : saveLog[f] = "saved"}
        IN  /\ \A f \in done : PathOf(f) \in DOMAIN fs /\ fs[PathOf(f)] = TextOf(f)
            /\ Cardinality(DOMAIN fs) = Cardinality(done)

SavedFiles == {f \in Files : saved[f] >= 1}

\* C8: however often extractText has run for an unchanged file, there is one
\* artifact for it, at its path, holding exactly its text, in a directory that
\* exists; no other file appears.
C8_ExtractionIdempotent ==
    /\ DOMAIN fs = {PathOf(f) : f \in SavedFiles}
    /\ \A f \in SavedFiles :
          /\ PathOf(f).dir \in dirs
          /\ (\A g \in SavedFiles : PathOf(g) = PathOf(f) => g = f)
                => fs[PathOf(f)] = TextOf(f)

C8_Witness ==
    \E f \in Files :
        /\ saved[f] = 2 /\ calls[f] = 2 /\ pc[f] = "Settled"
        /\ fs[PathOf(f)] = TextOf(f)

ExpectedBranch(shape) ==
    CASE shape = "ArrayBuffer" -> 1 [] shape = "Blob" -> 2 [] OTHER -> 3

\* C9: exactly the first matching probe's branch runs (ArrayBuffer, then
\* arrayBuffer(), else the value itself), and what is returned is a byte buffer
\* holding the body's bytes.
C9_NormalizationProbeOrder ==
    /\ bufPc # "called" => bufBranch = ExpectedBranch(bufIn.shape)
    /\ bufPc \in {"collecting", "rejected"} => bufBranch = 2
    /\ bufPc = "returned" =>
          /\ bufOut.type = "Buffer"
          /\ bufOut.bytes = IF bufIn.shape = "String"
                            THEN [i \in 1..Len(bufIn.content) |-> CharCode(bufIn.content[i])]
                            ELSE bufIn.content

C9_Witness ==
    bufPc = "returned" /\ bufBranch = 2 /\ bufIn.shape = "Blob" /\ Len(bufOut.bytes) = MaxBytes

RequiredStages(m) ==
    {"metadata", "content"} \cup (IF m \in {PDF, DOCX} THEN {"normalize", "decode"} ELSE {})

\* C10: a call of extractText calls saveFile at most once, and only when the
\* metadata fetch, the content fetch and the decoding have succeeded; a step
\* that changes a file or a directory is such a call of saveFile.
C10_WriteFollowsDecode ==
    /\ [](\A f \in Files :
            /\ saveCalls[f] <= 1
            /\ saveCalls[f] = 1 =>
                  /\ remote[f] \in fileTypes
                  /\ errorLog[f] = "none"
                  /\ RequiredStages(remote[f]) \subseteq stages[f]
            /\ errorLog[f] # "none" => saveCalls[f] = 0)
    /\ [][fs' # fs \/ dirs' # dirs =>
            \E f \in Files : saveCalls'[f] = saveCalls[f] + 1 /\ errorLog'[f] = "none"]_vars

C10_Witness ==
    \E f \in Files :
        /\ calls[f] = 2 /\ saved[f] = 1 /\ errorLog[f] = "decode" /\ saveCalls[f] = 0
        /\ fs[PathOf(f)] = TextOf(f)

====
